---- MODULE Spec2Model ----
(***************************************************************************)
(* A model of src/dataexplorerapp.py: the Streamlit data explorer.  One    *)
(* run of main() is a walk of pc through upload, datetime coercion, the    *)
(* filter form, validation of the time window, the filtering steps and     *)
(* the export buttons.                                                     *)
(*                                                                         *)
(* Values.  A cell is <<>> when it is missing (NaN, NaT, None) and <<v>>   *)
(* when it holds v.  A datetime is a whole number of half days since       *)
(* 2024-01-01 00:00, so that .dt.date (DateOf) really drops a time of      *)
(* day.  A number is an integer (the floats the code builds from them are  *)
(* exact).  A text is a sequence of one-character strings.  A column name  *)
(* is a sequence of tokens, the token "__dt__" standing for those six      *)
(* characters and every other token holding no underscore.                 *)
(*                                                                         *)
(* Tables.  A table is [columns, dtype, rows]; a row is [v, n]: the cells  *)
(* v (a function of the column names) of n consecutive rows that hold the  *)
(* same cells.  Every operation of the code modelled here treats equal     *)
(* rows alike, so a block of n rows stands for them exactly; n is 1        *)
(* except where the 500,000 row chunks of the export are at stake.         *)
(***************************************************************************)
EXTENDS Integers, Sequences, FiniteSets, TLC

VARIABLES pc, df, ctl, filtered, applied, downloads, msgs

vars == <<pc, df, ctl, filtered, applied, downloads, msgs>>

(***************************************************************************)
(* Cells, names and tables                                                 *)
(***************************************************************************)
NA == <<>>

Some(v) == <<v>>

notna(x) == x # NA

Val(x) == x[1]

Range(s) == {s[i] : i \in DOMAIN s}

RECURSIVE SeqsUpTo(_, _)
SeqsUpTo(S, k) ==
    IF k = 0 THEN {<<>>}
    ELSE LET shorter == SeqsUpTo(S, k - 1)
         IN  shorter \cup {Append(s, x) : s \in {t \in shorter : Len(t) = k - 1}, x \in S}

RECURSIVE SumSeq(_)
SumSeq(s) == IF s = <<>> THEN 0 ELSE Head(s) + SumSeq(Tail(s))

\* len(table): the blocks' row counts added up.
NRows(T) == SumSeq([i \in DOMAIN T.rows |-> T.rows[i].n])

\* .dt.date of a datetime: the day, the time of day dropped.
DateOf(t) == t \div 2

(***************************************************************************)
(* main, lines 146-152: the datetime coercion of the object columns        *)
(***************************************************************************)
\* pd.to_datetime(value, errors='coerce') on the strings the model draws:
\* a date, a date with a time of day, or something that is no date (NaT).
to_datetime(x) ==
    IF ~notna(x) THEN NA
    ELSE CASE Val(x) = "2024-01-01" -> Some(0)
           [] Val(x) = "2024-01-01 12:00" -> Some(1)
           [] Val(x) = "2024-01-02" -> Some(2)
           [] Val(x) = "2024-01-31" -> Some(60)
           [] Val(x) = "2024-02-01" -> Some(62)
           [] OTHER -> NA

\* parsed.notna().sum() and len(parsed), the two terms of parsed.notna().mean().
ParsedCount(T, c) ==
    SumSeq([i \in DOMAIN T.rows |->
              IF notna(to_datetime(T.rows[i].v[c])) THEN T.rows[i].n ELSE 0])

\* A faulty variant of the ratio: the mean taken over the non-missing values only.
SuccessOverNonMissing(T, c) ==
    LET nonmissing == SumSeq([i \in DOMAIN T.rows |->
                                IF notna(T.rows[i].v[c]) THEN T.rows[i].n ELSE 0])
    IN  nonmissing > 0 /\ 10 * ParsedCount(T, c) > 8 * nonmissing

\* success_ratio > 0.8 with success_ratio = parsed.notna().mean(): the mean of an
\* empty column is NaN, which is not greater than 0.8; otherwise count/len > 0.8,
\* decided here in integers (count/len is the double nearest the quotient, and
\* 0.8 the double nearest 4/5: they compare as the quotients do for any len
\* below 2^50).
SuccessRatioAboveThreshold(T, c) ==
    NRows(T) > 0 /\ 10 * ParsedCount(T, c) > 8 * NRows(T)

\* df[col] = parsed: the column holds the parsed datetimes and is datetime64.
CoerceColumn(T, c) ==
    [T EXCEPT !.dtype[c] = "datetime64",
              !.rows = [i \in DOMAIN T.rows |->
                          [T.rows[i] EXCEPT !.v[c] = to_datetime(T.rows[i].v[c])]]]

\* The loop over df.columns, from column k on.
RECURSIVE CoerceFrom(_, _)
CoerceFrom(T, k) ==
    IF k > Len(T.columns) THEN T
    ELSE LET c == T.columns[k]
         IN  IF T.dtype[c] = "object" /\ SuccessRatioAboveThreshold(T, c)
             THEN CoerceFrom(CoerceColumn(T, c), k + 1)
             ELSE CoerceFrom(T, k + 1)

CoerceDatetimes(T) == CoerceFrom(T, 1)

NoTable == <<>>

NoCtl == [submitted |-> FALSE]

\* main, lines 146-152, as a step of the run.
Coerce ==
    /\ pc = "coerce"
    /\ df' = CoerceDatetimes(df)
    /\ pc' = "form"
    /\ UNCHANGED <<ctl, filtered, applied, downloads, msgs>>

(***************************************************************************)
(* build_filters_form, lines 30-66: the form and the values it returns     *)
(***************************************************************************)
is_datetime64_any_dtype(T, c) == T.dtype[c] = "datetime64"

is_numeric_dtype(T, c) == T.dtype[c] \in {"int64", "float64"}

HasColumn(T, c) == c \in Range(T.columns)

\* line 34
datetime_cols(T) == SelectSeq(T.columns, LAMBDA c : is_datetime64_any_dtype(T, c))

TimeCol == <<"time">>

WhenCol == <<"when">>

\* line 39
default_time_col(T) ==
    IF TimeCol \in Range(datetime_cols(T)) THEN TimeCol ELSE datetime_cols(T)[1]

SetMin(S) == CHOOSE x \in S : \A y \in S : x <= y

SetMax(S) == CHOOSE x \in S : \A y \in S : x >= y

Present(T, c) == {Val(T.rows[i].v[c]) : i \in {j \in DOMAIN T.rows : notna(T.rows[j].v[c])}}

\* df[col].min(), df[col].max(): the missing cells skipped, NaN when none is left.
ColMin(T, c) == IF Present(T, c) = {} THEN NA ELSE Some(SetMin(Present(T, c)))

ColMax(T, c) == IF Present(T, c) = {} THEN NA ELSE Some(SetMax(Present(T, c)))

PresentDates(T, c) == {DateOf(t) : t \in Present(T, c)}

\* df[col].dt.date.min(), df[col].dt.date.max(): the reductions as documented,
\* skipna=True, so the missing cells are skipped.
DateMin(T, c) == IF PresentDates(T, c) = {} THEN NA ELSE Some(SetMin(PresentDates(T, c)))

DateMax(T, c) == IF PresentDates(T, c) = {} THEN NA ELSE Some(SetMax(PresentDates(T, c)))

\* line 60: the distinct non-missing values of the column.
unique_vals(T, c) == Present(T, c)

MaxCategorical == 100

\* The widget of a column other than the time column, lines 53-64.
WidgetKind(T, c) ==
    IF is_numeric_dtype(T, c) THEN "slider"
    ELSE IF is_datetime64_any_dtype(T, c) THEN "date_input"
    ELSE IF Cardinality(unique_vals(T, c)) <= MaxCategorical THEN "multiselect"
    ELSE "text_input"

\* What each widget returns when the user leaves it alone: the slider and the
\* date input their full range, the multiselect nothing, the text input "".
DefaultWidget(T, c) ==
    CASE WidgetKind(T, c) = "slider" -> <<Val(ColMin(T, c)), Val(ColMax(T, c))>>
      [] WidgetKind(T, c) = "date_input" -> <<Val(DateMin(T, c)), Val(DateMax(T, c))>>
      [] WidgetKind(T, c) = "multiselect" -> {}
      [] OTHER -> <<>>

OtherColumns(T, time_col) == Range(T.columns) \ {time_col}

Max2(a, b) == IF a >= b THEN a ELSE b

\* lines 41-45: the date input's default, the dataset's last seven days.
DefaultDateRange(T, time_col) ==
    LET default_end == Val(DateMax(T, time_col))
        default_start == Max2(Val(DateMin(T, time_col)), default_end - 7)
    IN  <<default_start, default_end>>

\* The values of the form on a run in which the button was not pressed.
DefaultCtl(T) ==
    [submitted |-> FALSE,
     selected_columns |-> T.columns,
     time_col |-> default_time_col(T),
     date_range |-> DefaultDateRange(T, default_time_col(T)),
     widget |-> [c \in OtherColumns(T, default_time_col(T)) |-> DefaultWidget(T, c)]]

(***************************************************************************)
(* A Python dict: its items in insertion order; setting a key it holds     *)
(* replaces the value in place.                                            *)
(***************************************************************************)
DictSet(d, k, x) ==
    IF \E i \in DOMAIN d : d[i].key = k
    THEN [i \in DOMAIN d |-> IF d[i].key = k THEN [key |-> k, val |-> x] ELSE d[i]]
    ELSE Append(d, [key |-> k, val |-> x])

\* f'__dt__{col}', line 58
DtKey(col) == <<"__dt__">> \o col

\* key.startswith('__dt__'), line 88
StartsWithDt(key) == Len(key) > 0 /\ key[1] = "__dt__"

\* key.replace('__dt__', ''), line 89: every occurrence goes.
StripDt(key) == SelectSeq(key, LAMBDA tok : tok # "__dt__")

\* The loop of lines 50-64 from column k on, given what the widgets returned:
\* the three dicts.  A date input returns a tuple, a multiselect a list.
RECURSIVE CollectFrom(_, _, _, _)
CollectFrom(T, c, k, acc) ==
    IF k > Len(T.columns) THEN acc
    ELSE LET col == T.columns[k]
         IN  IF col = c.time_col THEN CollectFrom(T, c, k + 1, acc)
             ELSE CASE WidgetKind(T, col) = "slider" ->
                         CollectFrom(T, c, k + 1,
                           [acc EXCEPT !.numeric_ranges =
                              DictSet(@, col, c.widget[col])])
                    [] WidgetKind(T, col) = "date_input" ->
                         CollectFrom(T, c, k + 1,
                           [acc EXCEPT !.categorical_selections =
                              DictSet(@, DtKey(col),
                                      [tuple |-> TRUE, items |-> c.widget[col]])])
                    [] WidgetKind(T, col) = "multiselect" ->
                         CollectFrom(T, c, k + 1,
                           [acc EXCEPT !.categorical_selections =
                              DictSet(@, col,
                                      [tuple |-> FALSE, items |-> c.widget[col]])])
                    [] OTHER ->
                         CollectFrom(T, c, k + 1,
                           [acc EXCEPT !.substrings = DictSet(@, col, c.widget[col])])

Collect(T, c) ==
    CollectFrom(T, c, 1,
                [numeric_ranges |-> <<>>, categorical_selections |-> <<>>,
                 substrings |-> <<>>])

(***************************************************************************)
(* build_filters_form, lines 68-77: the validation of the submission       *)
(***************************************************************************)
MaxWindowDays == 30

\* isinstance(date_range, tuple) and len(date_range) == 2, line 71: the date
\* input always returns a tuple, of as many dates as the user has picked.
IsPair(date_range) == Len(date_range) = 2

\* A faulty variant of the window check: the limit itself refused.
WindowAtLeastLimit(date_range) == date_range[2] - date_range[1] >= MaxWindowDays

\* A faulty variant of the window check: no limit at all.
WindowNeverTooLong(date_range) == FALSE

\* (end_date - start_date).days > 30, line 75
WindowTooLong(date_range) == date_range[2] - date_range[1] > MaxWindowDays

(***************************************************************************)
(* build_filters_form, lines 79-104: the filtering steps                   *)
(***************************************************************************)
Ok(T) == [raised |-> FALSE, table |-> T]

Raised(T) == [raised |-> TRUE, table |-> T]

\* filtered[mask]: the rows (blocks) the mask holds for, in their order.
Keep(T, mask(_)) == [T EXCEPT !.rows = SelectSeq(T.rows, mask)]

\* (dates >= lo) & (dates <= hi) on .dt.date: a missing date compares False.
DateBetween(x, lo, hi) == notna(x) /\ lo <= DateOf(Val(x)) /\ DateOf(Val(x)) <= hi

\* lines 80-81
TimeMask(T, time_col, date_range) ==
    Keep(T, LAMBDA r : DateBetween(r.v[time_col], date_range[1], date_range[2]))

\* A faulty variant of between: neither end included.
between_neither(x, low, high) == notna(x) /\ low < Val(x) /\ Val(x) < high

\* Series.between(low, high): both ends included, a missing number False.
between(x, low, high) == notna(x) /\ low <= Val(x) /\ Val(x) <= high

\* lines 84-85 for one item of numeric_ranges: D is df, F is filtered.  The two
\* tuples differ whenever the column's min is NaN.
NumericStep(D, F, e) ==
    IF <<Some(e.val[1]), Some(e.val[2])>> # <<ColMin(D, e.key), ColMax(D, e.key)>>
    THEN Keep(F, LAMBDA r : between(r.v[e.key], e.val[1], e.val[2]))
    ELSE F

RECURSIVE NumericLoop(_, _, _)
NumericLoop(D, F, items) ==
    IF items = <<>> THEN F
    ELSE NumericLoop(D, NumericStep(D, F, Head(items)), Tail(items))

\* key.startswith('__dt__'), line 88
IsDateRangeKey(e) == StartsWithDt(e.key)

\* lines 95-97 for one item that is no date range
IsinStep(F, e) ==
    IF e.val.items # {}
    THEN Keep(F, LAMBDA r : notna(r.v[e.key]) /\ Val(r.v[e.key]) \in e.val.items)
    ELSE F

\* lines 89-93 for one date range item: df[col].dt raises when col is not a
\* datetime column of df.
DateRangeStep(D, F, e) ==
    LET col == StripDt(e.key)
    IN  IF ~(e.val.tuple /\ Len(e.val.items) = 2) THEN Ok(F)
        ELSE IF ~(HasColumn(D, col) /\ is_datetime64_any_dtype(D, col)) THEN Raised(F)
        ELSE IF ~(Some(e.val.items[1]) = DateMin(D, col)
                  /\ Some(e.val.items[2]) = DateMax(D, col))
        THEN Ok(Keep(F, LAMBDA r : DateBetween(r.v[col], e.val.items[1], e.val.items[2])))
        ELSE Ok(F)

\* lines 87-97 for one item of categorical_selections
CategoricalStep(D, F, e) ==
    IF IsDateRangeKey(e) THEN DateRangeStep(D, F, e) ELSE Ok(IsinStep(F, e))

RECURSIVE CategoricalLoop(_, _, _)
CategoricalLoop(D, F, items) ==
    IF items = <<>> THEN Ok(F)
    ELSE LET r == CategoricalStep(D, F, Head(items))
         IN  IF r.raised THEN r ELSE CategoricalLoop(D, r.table, Tail(items))

\* re.IGNORECASE on the letters the model draws
Lower(ch) ==
    CASE ch = "A" -> "a"
      [] ch = "N" -> "n"
      [] ch = "B" -> "b"
      [] OTHER -> ch

\* Series.astype(str) on an object column (pandas before 3.0, whose strings are
\* object columns as line 148 expects): a missing cell becomes the text "nan".
astype_str(x) == IF notna(x) THEN Val(x) ELSE <<"n", "a", "n">>

\* re.search(text, s, re.IGNORECASE) for a pattern of letters, digits and ".":
\* a letter or digit matches itself whatever its case, "." any character.
MatchAt(text, s, k) ==
    \A j \in 1..Len(text) : text[j] = "." \/ Lower(text[j]) = Lower(s[k + j])

re_search(text, s) == \E k \in 0..(Len(s) - Len(text)) : MatchAt(text, s, k)

\* .str.contains(text, case=False, na=False) on one cell of the astype(str)
\* column: no cell of it is missing any more.
str_contains(x, text) == re_search(text, astype_str(x))

\* lines 100-101 for one item of substrings
SubstringStep(F, e) ==
    IF e.val # <<>> THEN Keep(F, LAMBDA r : str_contains(r.v[e.key], e.val)) ELSE F

RECURSIVE SubstringLoop(_, _)
SubstringLoop(F, items) ==
    IF items = <<>> THEN F ELSE SubstringLoop(SubstringStep(F, Head(items)), Tail(items))

\* filtered[selected_columns], line 103
Project(F, selected_columns) ==
    [columns |-> selected_columns,
     dtype |-> [c \in Range(selected_columns) |-> F.dtype[c]],
     rows |-> [i \in DOMAIN F.rows |->
                 [v |-> [c \in Range(selected_columns) |-> F.rows[i].v[c]],
                  n |-> F.rows[i].n]]]

\* lines 79-104 on the dicts the form built: the inert ranges are judged
\* against D and the rows are taken from T (the code has D = T = df).
FilterWith(dicts, D, T, c) ==
    LET afterTime == TimeMask(T, c.time_col, c.date_range)
        afterNum == NumericLoop(D, afterTime, dicts.numeric_ranges)
        afterCat == CategoricalLoop(D, afterNum, dicts.categorical_selections)
    IN  IF afterCat.raised THEN afterCat
        ELSE Ok(Project(SubstringLoop(afterCat.table, dicts.substrings),
                        c.selected_columns))

apply_filters(T, c) == FilterWith(Collect(T, c), T, T, c)

(***************************************************************************)
(* What the user can enter in the form                                     *)
(***************************************************************************)
DateChoices == {0, 1, 31}

TextChoices == {<<>>, <<"a">>, <<"a", "n">>, <<"A", "B">>, <<"a", ".">>}

\* st.date_input in range mode: a tuple of no, one or two dates, in order.
DatePicks ==
    {<<>>, <<0>>}
           \cup {p \in DateChoices \X DateChoices : p[1] <= p[2]}

Reverse(s) == [i \in DOMAIN s |-> s[Len(s) + 1 - i]]

\* st.multiselect over df.columns: here all of them, all of them the other
\* way round, or the first one alone.
Projections(T) == {T.columns, Reverse(T.columns), <<T.columns[1]>>}

\* What the widget of column col can return.
WidgetValues(T, col) ==
    CASE WidgetKind(T, col) = "slider" ->
           {p \in (Val(ColMin(T, col))..Val(ColMax(T, col)))
                    \X (Val(ColMin(T, col))..Val(ColMax(T, col))) : p[1] <= p[2]}
      [] WidgetKind(T, col) = "date_input" -> DatePicks \cup {DefaultWidget(T, col)}
      [] WidgetKind(T, col) = "multiselect" -> SUBSET unique_vals(T, col)
      [] OTHER -> TextChoices

\* What the widgets of the columns `cols` can return together.
RECURSIVE WidgetChoices(_, _)
WidgetChoices(T, cols) ==
    IF cols = {} THEN {[col \in {} |-> col]}
    ELSE LET col == CHOOSE x \in cols : TRUE
         IN  {(col :> x) @@ w : x \in WidgetValues(T, col),
                                w \in WidgetChoices(T, cols \ {col})}

\* The forms a user can submit on table T.
Submitted(T) ==
    UNION {{[submitted |-> TRUE, selected_columns |-> sel, time_col |-> tc,
             date_range |-> dr, widget |-> w] :
               sel \in Projections(T), dr \in DatePicks,
               w \in WidgetChoices(T, OtherColumns(T, tc))}
           : tc \in Range(datetime_cols(T))}

(***************************************************************************)
(* The steps of main                                                       *)
(***************************************************************************)
\* lines 30-66: the form is drawn; the values are the user's when the button
\* was pressed and the defaults otherwise.  Without a datetime column the form
\* returns (None, False) at line 38.
BuildForm ==
    /\ pc = "form"
    /\ IF datetime_cols(df) = <<>>
       THEN /\ msgs' = Append(msgs, "error: No datetime columns found")
            /\ pc' = "gate"
            /\ UNCHANGED ctl
       ELSE /\ \E c \in {DefaultCtl(df)} \cup Submitted(df) :
                 ctl' = c
            /\ pc' = "validate"
            /\ UNCHANGED msgs
    /\ UNCHANGED <<df, filtered, applied, downloads>>

\* lines 68-77
Validate ==
    /\ pc = "validate"
    /\ IF ~ctl.submitted
       THEN pc' = "gate" /\ UNCHANGED msgs
       ELSE IF ~IsPair(ctl.date_range)
       THEN /\ msgs' = Append(msgs, "warning: Please select a start and end date")
            /\ pc' = "gate"
       ELSE IF WindowTooLong(ctl.date_range)
       THEN /\ msgs' = Append(msgs, "error: Selected time window exceeds 30 days")
            /\ pc' = "gate"
       ELSE pc' = "filter" /\ UNCHANGED msgs
    /\ UNCHANGED <<df, ctl, filtered, applied, downloads>>

\* lines 79-104: (filtered, True) is returned, or an exception leaves main.
ApplyFilters ==
    /\ pc = "filter"
    /\ LET r == apply_filters(df, ctl)
       IN  IF r.raised
           THEN pc' = "raised" /\ UNCHANGED <<filtered, applied>>
           ELSE pc' = "gate" /\ filtered' = Some(r.table) /\ applied' = TRUE
    /\ UNCHANGED <<df, ctl, downloads, msgs>>

\* if not applied: ... return, line 157
ExportEnabled(a) == a

\* lines 156-161
Gate ==
    /\ pc = "gate"
    /\ IF ~ExportEnabled(applied)
       THEN /\ msgs' = Append(msgs, "info: Set the required time window")
            /\ pc' = "done"
       ELSE /\ msgs' = Append(msgs, "caption: Filtered rows")
            /\ pc' = "export"
    /\ UNCHANGED <<df, ctl, filtered, applied, downloads>>

chunk_size == 500000

Min2(a, b) == IF a <= b THEN a ELSE b

\* The rows at positions start .. end - 1 (from 0) of a sequence of blocks.
RECURSIVE SliceRows(_, _, _)
SliceRows(rows, start, end) ==
    IF rows = <<>> \/ end <= 0 THEN <<>>
    ELSE LET b == Head(rows)
             lo == Max2(start, 0)
             hi == Min2(end, b.n)
             rest == SliceRows(Tail(rows), start - b.n, end - b.n)
         IN  IF hi > lo THEN <<[b EXCEPT !.n = hi - lo]>> \o rest ELSE rest

\* filtered.iloc[start:end], line 173
iloc(T, start, end) == [T EXCEPT !.rows = SliceRows(T.rows, start, end)]

\* DataFrame.to_csv(index=False): the header line, then a line per row.
to_csv(T) == [header |-> T.columns, lines |-> T.rows]

\* f'filtered_part_{num_parts}.csv', line 175
PartName(num_parts) == <<"filtered_part_", num_parts, ".csv">>

\* end = min(start + chunk_size, len(filtered)), line 172
PartEnd(start, T) == Min2(start + chunk_size, NRows(T))

\* The loop of lines 170-175 from `start` on: the members written to the ZIP.
RECURSIVE ZipMembers(_, _, _)
ZipMembers(T, start, num_parts) ==
    IF start >= NRows(T) THEN <<>>
    ELSE <<[name |-> PartName(num_parts + 1),
            data |-> to_csv(iloc(T, start, PartEnd(start, T)))]>>
           \o ZipMembers(T, start + chunk_size, num_parts + 1)

\* A faulty variant of line 164: a table of exactly chunk_size rows is zipped.
DelimitedDownloadBelowLimit(T) ==
    IF NRows(T) < chunk_size
    THEN [file_name |-> "filtered.csv", mime |-> "text/csv", data |-> to_csv(T)]
    ELSE [file_name |-> "filtered_parts.zip", mime |-> "application/zip",
          data |-> ZipMembers(T, 0, 0)]

\* lines 164-176: the delimited-text download button.
DelimitedDownload(T) ==
    IF NRows(T) <= chunk_size
    THEN [file_name |-> "filtered.csv", mime |-> "text/csv", data |-> to_csv(T)]
    ELSE [file_name |-> "filtered_parts.zip", mime |-> "application/zip",
          data |-> ZipMembers(T, 0, 0)]

ExportDelimited ==
    /\ pc = "export"
    /\ downloads' = Append(downloads, DelimitedDownload(Val(filtered)))
    /\ pc' = "parquet"
    /\ UNCHANGED <<df, ctl, filtered, applied, msgs>>

\* A faulty variant of lines 182-183: the exception is not caught.
ParquetErrorPropagates(m) == [pc |-> "raised", msgs |-> m]

\* except Exception as e: st.caption(...), lines 182-183
ParquetErrorCaught(m) ==
    [pc |-> "done", msgs |-> Append(m, "caption: Parquet download unavailable")]

\* lines 178-183: to_parquet works or raises (no pyarrow, a column it cannot
\* write).
ExportParquet ==
    /\ pc = "parquet"
    /\ \E works \in BOOLEAN :
         IF works
         THEN /\ downloads' = Append(downloads,
                     [file_name |-> "filtered.parquet",
                      mime |-> "application/octet-stream", data |-> Val(filtered)])
              /\ pc' = "done"
              /\ UNCHANGED msgs
         ELSE /\ pc' = ParquetErrorCaught(msgs).pc
              /\ msgs' = ParquetErrorCaught(msgs).msgs
              /\ UNCHANGED downloads
    /\ UNCHANGED <<df, ctl, filtered, applied>>

(***************************************************************************)
(* The tables the runs are checked on                                      *)
(***************************************************************************)
Table(columns, dtype, cells) ==
    [columns |-> columns, dtype |-> dtype, rows |-> cells]

MaxBlocks == 3

BlockSizes == {1, 200000, 500000}

\* A datetime column "time" alone, in blocks of up to 500,000 equal rows.
TimeTables ==
    {Table(<<TimeCol>>, (TimeCol :> "datetime64"), rows) :
       rows \in SeqsUpTo({[v |-> (TimeCol :> Some(t)), n |-> k] :
                            t \in {1, 62}, k \in BlockSizes}, MaxBlocks) \ {<<>>}}

\* An object column "when" of date strings, and one of no dates.
ObjectTable(cells) ==
    [columns |-> <<WhenCol>>,
     dtype |-> (WhenCol :> "object"),
     rows |-> [i \in DOMAIN cells |-> [v |-> (WhenCol :> cells[i]), n |-> 1]]]

UploadedTables ==
    TimeTables \cup {ObjectTable(<<Some("2024-01-01 12:00"), Some("2024-02-01")>>),
                     ObjectTable(<<Some("abc"), Some("2024-02-01")>>)}

\* lines 135-144: no file yet, a file load_file cannot read, or a table.
Upload ==
    /\ pc = "upload"
    /\ \E outcome \in {"none", "unreadable", "loaded"} :
         CASE outcome = "none" ->
                /\ msgs' = Append(msgs, "info: Awaiting file upload")
                /\ pc' = "done"
                /\ UNCHANGED df
           [] outcome = "unreadable" ->
                /\ msgs' = Append(msgs, "error: Failed to load file")
                /\ pc' = "done"
                /\ UNCHANGED df
           [] OTHER ->
                /\ \E T \in UploadedTables : df' = T
                /\ pc' = "coerce"
                /\ UNCHANGED msgs
    /\ UNCHANGED <<ctl, filtered, applied, downloads>>

Init ==
    /\ pc = "upload"
    /\ df = NoTable
    /\ ctl = NoCtl
    /\ filtered = NoTable
    /\ applied = FALSE
    /\ downloads = <<>>
    /\ msgs = <<>>

Next ==
    \/ Upload
    \/ Coerce
    \/ BuildForm
    \/ Validate
    \/ ApplyFilters
    \/ Gate
    \/ ExportDelimited
    \/ ExportParquet

Spec == Init /\ [][Next]_vars

(***************************************************************************)
(* The form and the filtering steps on their own, on every small table of  *)
(* a few families: build_filters_form from line 30 to its return           *)
(***************************************************************************)
MaxRows == 2

NumCol == <<"num">>

SeenCol == <<"seen">>

CatCol == <<"cat">>

TxtCol == <<"txt">>

Cells(dtype) ==
    CASE dtype = "float64" -> {NA, Some(1), Some(2)}
      [] dtype = "datetime64" -> {NA, Some(1), Some(62)}
      [] OTHER -> {NA, Some(<<"a">>), Some(<<"b">>)}

\* The tables of up to `most` rows with a datetime column "time" and a second
\* column `col` of type `dtype`, in which both columns hold some value.
TwoColumnTables(col, dtype, most) ==
    {T \in {Table(<<TimeCol, col>>, (TimeCol :> "datetime64") @@ (col :> dtype), rows) :
               rows \in SeqsUpTo({[v |-> (TimeCol :> Some(t)) @@ (col :> x), n |-> 1] :
                                    t \in {1, 62}, x \in Cells(dtype)}, most)} :
       Present(T, col) # {}}

\* A datetime column "time" alone, some of its cells missing.
GappyTimeTables ==
    {T \in {Table(<<TimeCol>>, (TimeCol :> "datetime64"), rows) :
               rows \in SeqsUpTo({[v |-> (TimeCol :> x), n |-> 1] :
                                    x \in Cells("datetime64")}, MaxRows)} :
       Present(T, TimeCol) # {}}

FormInit(tables) ==
    /\ pc = "form"
    /\ df \in tables
    /\ ctl = NoCtl
    /\ filtered = NoTable
    /\ applied = FALSE
    /\ downloads = <<>>
    /\ msgs = <<>>

NextFilter == BuildForm \/ Validate \/ ApplyFilters

InitFilter ==
    \/ FormInit(TwoColumnTables(NumCol, "float64", MaxRows))
    \/ FormInit(TwoColumnTables(SeenCol, "datetime64", MaxRows))
    \/ FormInit(TwoColumnTables(CatCol, "object", MaxRows))
    \/ FormInit(GappyTimeTables)

SpecFilter == InitFilter /\ [][NextFilter]_vars

(***************************************************************************)
(* The same on tables whose second column has "__dt__" in its name         *)
(***************************************************************************)
DtTimeCol == <<"__dt__", "time">>

DtCatCol == <<"__dt__", "cat">>

SeenDtCol == <<"seen", "__dt__">>

InitNames ==
    \/ FormInit(TwoColumnTables(DtTimeCol, "datetime64", MaxRows))
    \/ FormInit(TwoColumnTables(DtCatCol, "object", MaxRows))
    \/ FormInit(TwoColumnTables(SeenDtCol, "datetime64", MaxRows))

SpecNames == InitNames /\ [][NextFilter]_vars

(***************************************************************************)
(* The same on tables with a text column of more than 100 distinct values  *)
(***************************************************************************)
Digit(d) == <<"0", "1", "2", "3", "4", "5", "6", "7", "8", "9">>[d + 1]

\* 101 rows whose texts are the numerals 000 .. 100, all on 2024-02-01.
NumeralRows ==
    [i \in 1..(MaxCategorical + 1) |->
       [v |-> (TimeCol :> Some(62))
                @@ (TxtCol :> Some(<<Digit((i - 1) \div 100), Digit(((i - 1) \div 10) % 10),
                                     Digit((i - 1) % 10)>>)),
        n |-> 1]]

TextCells == {NA, Some(<<"a", "b">>), Some(<<"N", "a">>), Some(<<"b">>)}

TextTables ==
    {Table(<<TimeCol, TxtCol>>, (TimeCol :> "datetime64") @@ (TxtCol :> "object"),
           rows \o NumeralRows) :
       rows \in SeqsUpTo({[v |-> (TimeCol :> Some(t)) @@ (TxtCol :> x), n |-> 1] :
                            t \in {1, 62}, x \in TextCells}, MaxRows)}

InitText == FormInit(TextTables)

SpecText == InitText /\ [][NextFilter]_vars

(***************************************************************************)
(* The coercion on its own: every object column of up to MaxCells cells    *)
(***************************************************************************)
MaxCells == 5

ObjectCells == {NA, Some("2024-01-01"), Some("2024-01-31"), Some("abc")}

InitCoerce ==
    /\ pc = "coerce"
    /\ df \in {ObjectTable(cells) : cells \in SeqsUpTo(ObjectCells, MaxCells)}
    /\ ctl = NoCtl
    /\ filtered = NoTable
    /\ applied = FALSE
    /\ downloads = <<>>
    /\ msgs = <<>>

NextCoerce == Coerce

SpecCoerce == InitCoerce /\ [][NextCoerce]_vars

(***************************************************************************)
(* The checked statements                                                  *)
(***************************************************************************)
Submission == pc \notin {"upload", "coerce", "form", "validate"} /\ ctl.submitted

WindowDays == ctl.date_range[2] - ctl.date_range[1]

Said(m) == m \in Range(msgs)

\* C1: a submitted window of two dates is refused (the error shown, nothing
\* filtered, (None, False) returned) whenever end - start is more than 30 days,
\* and a window of exactly 30 days is not refused: the run goes on to filter.
C1_WindowBoundary ==
    (Submission /\ Len(ctl.date_range) = 2) =>
        /\ WindowDays > 30 =>
             /\ Said("error: Selected time window exceeds 30 days")
             /\ pc = "gate" /\ filtered = NoTable /\ ~applied
        /\ WindowDays = 30 =>
             /\ ~Said("error: Selected time window exceeds 30 days")
             /\ pc = "filter" \/ pc = "raised" \/ (applied /\ filtered # NoTable)

C1_Witness ==
    /\ pc = "gate" /\ applied
    /\ ctl.date_range = <<1, 31>>
    /\ Val(filtered).rows # <<>>

ValidationFailed ==
    /\ pc \notin {"upload", "coerce", "form", "validate"}
    /\ df # NoTable
    /\ \/ datetime_cols(df) = <<>>
       \/ ctl.submitted /\ Len(ctl.date_range) # 2
       \/ ctl.submitted /\ Len(ctl.date_range) = 2 /\ WindowDays > 30

\* C2: when validation fails (no datetime column, a window that is no pair of
\* dates, a window of more than 30 days) nothing is filtered and no download is
\* offered in that run; every export step and every download comes after a
\* submission that passed all three checks.
C2_NoWorkAfterFailedValidation ==
    /\ ValidationFailed =>
         /\ filtered = NoTable /\ ~applied /\ downloads = <<>>
         /\ pc \in {"gate", "done"}
    /\ (pc \in {"export", "parquet"} \/ downloads # <<>>) =>
         /\ applied /\ filtered # NoTable
         /\ datetime_cols(df) # <<>>
         /\ ctl.submitted /\ Len(ctl.date_range) = 2 /\ WindowDays <= 30

C2_Witness ==
    /\ pc = "done"
    /\ Said("error: Selected time window exceeds 30 days")
    /\ ctl.date_range = <<0, 31>>
    /\ downloads = <<>>

TextColumns == {col \in DOMAIN ctl.widget : WidgetKind(df, col) = "text_input"}

\* s holds text as a substring, the case of the letters ignored.
ContainsIgnoringCase(s, text) ==
    \E k \in 0..(Len(s) - Len(text)) :
        \A j \in 1..Len(text) : Lower(text[j]) = Lower(s[k + j])

\* C3: with a non-empty substring entered for a text column, every row kept has
\* a value in that column, and the value holds the substring, case ignored.
C3_SubstringAsClaimed ==
    (pc = "gate" /\ applied) =>
        \A col \in TextColumns \cap Range(ctl.selected_columns) :
            ctl.widget[col] # <<>> =>
                \A i \in DOMAIN Val(filtered).rows :
                    /\ notna(Val(filtered).rows[i].v[col])
                    /\ ContainsIgnoringCase(Val(Val(filtered).rows[i].v[col]),
                                            ctl.widget[col])

\* The dicts of the form with the constraint of column col left out.
Without(dicts, col) ==
    [dicts EXCEPT
       !.numeric_ranges = SelectSeq(@, LAMBDA e : e.key # col),
       !.categorical_selections =
           SelectSeq(@, LAMBDA e : ~(e.key = DtKey(col) /\ e.val.tuple))]

FullRange(col) ==
    \/ WidgetKind(df, col) = "slider"
         /\ <<Some(ctl.widget[col][1]), Some(ctl.widget[col][2])>>
              = <<ColMin(df, col), ColMax(df, col)>>
    \/ WidgetKind(df, col) = "date_input"
         /\ Len(ctl.widget[col]) = 2
         /\ <<Some(ctl.widget[col][1]), Some(ctl.widget[col][2])>>
              = <<DateMin(df, col), DateMax(df, col)>>

\* C4: a numeric or date range equal to the column's whole observed (min, max)
\* narrows nothing: the rows are those of the same submission without it.
C4_NoOpLaw ==
    (pc = "gate" /\ applied) =>
        \A col \in DOMAIN ctl.widget :
            FullRange(col) =>
                Val(filtered) = FilterWith(Without(Collect(df, ctl), col), df, df, ctl).table

KeepsEveryColumn == Range(ctl.selected_columns) = Range(df.columns)

\* The same dicts applied to the rows just filtered, a range being inert when
\* it is the whole range of the table this application receives.
Reapplied == FilterWith(Collect(df, ctl), Val(filtered), Val(filtered), ctl)

RangeColumns == {col \in DOMAIN ctl.widget : WidgetKind(df, col) \in {"slider", "date_input"}}

NoneMissing(T) == \A i \in DOMAIN T.rows : \A col \in RangeColumns : notna(T.rows[i].v[col])

\* C5 as claimed: applying the submission to its own result, the inert ranges
\* judged against that result, changes neither the rows nor the columns.
C5_Idempotent ==
    (pc = "gate" /\ applied /\ KeepsEveryColumn) =>
        ~Reapplied.raised /\ Reapplied.table = Val(filtered)

\* C5 as amended: it changes neither rows nor columns provided no row of the
\* result misses a value in a numeric or non-time datetime column.
C5_IdempotentWithoutMissing ==
    (pc = "gate" /\ applied /\ KeepsEveryColumn /\ NoneMissing(Val(filtered))) =>
        ~Reapplied.raised /\ Reapplied.table = Val(filtered)

\* A range that was inert on df is judged again, and not inert, on the result.
C5_Witness ==
    /\ pc = "gate" /\ applied /\ KeepsEveryColumn /\ NoneMissing(Val(filtered))
    /\ Val(filtered).rows # <<>>
    /\ \E col \in RangeColumns :
         /\ FullRange(col)
         /\ WidgetKind(df, col) = "slider"
         /\ ColMax(Val(filtered), col) # ColMax(df, col)

Count(T, c, P(_)) ==
    SumSeq([i \in DOMAIN T.rows |-> IF P(T.rows[i].v[c]) THEN T.rows[i].n ELSE 0])

ObjectColumns(T) == {c \in Range(T.columns) : T.dtype[c] = "object"}

\* C6 as claimed: an object column becomes a datetime column exactly when its
\* parsed values are more than 0.8 of its non-missing values.
C6_RatioOfNonMissing ==
    [][(pc = "coerce" /\ pc' = "form") =>
         \A c \in ObjectColumns(df) :
             (df'.dtype[c] = "datetime64") <=>
                 (10 * Count(df, c, LAMBDA x : notna(to_datetime(x)))
                    > 8 * Count(df, c, notna))]_vars

\* C6 as amended: exactly when its parsed values are more than 0.8 of all its
\* values, the missing ones counted; otherwise the column stays as it was.
C6_RatioOfAllValues ==
    [][(pc = "coerce" /\ pc' = "form") =>
         \A c \in ObjectColumns(df) :
             /\ (df'.dtype[c] = "datetime64") <=>
                  (10 * Count(df, c, LAMBDA x : notna(to_datetime(x)))
                     > 8 * Count(df, c, LAMBDA x : TRUE))
             /\ df'.dtype[c] = "datetime64" =>
                  \A i \in DOMAIN df.rows : df'.rows[i].v[c] = to_datetime(df.rows[i].v[c])
             /\ df'.dtype[c] # "datetime64" =>
                  \A i \in DOMAIN df.rows : df'.rows[i].v[c] = df.rows[i].v[c]]_vars

\* A column left alone at exactly four values in five, the fifth one missing.
C6_Witness ==
    /\ pc = "form"
    /\ Len(df.rows) = 5
    /\ df.dtype[WhenCol] = "object"
    /\ Count(df, WhenCol, LAMBDA x : notna(to_datetime(x))) = 4
    /\ Count(df, WhenCol, notna) = 4

\* The rows a sequence of blocks stands for, as blocks that cannot be merged.
RECURSIVE Canonical(_)
Canonical(rows) ==
    IF Len(rows) <= 1 THEN rows
    ELSE LET rest == Canonical(Tail(rows))
         IN  IF Head(rows).v = Head(rest).v
             THEN <<[v |-> Head(rows).v, n |-> Head(rows).n + Head(rest).n]>> \o Tail(rest)
             ELSE <<Head(rows)>> \o rest

RECURSIVE Concat(_)
Concat(members) ==
    IF members = <<>> THEN <<>> ELSE Head(members).data.lines \o Concat(Tail(members))

Rows(lines) == SumSeq([i \in DOMAIN lines |-> lines[i].n])

C8_ParquetFailureIsolated ==
    [][pc = "parquet" =>
         /\ pc' = "done"
         /\ applied'
         /\ Len(downloads) = 1 /\ downloads'[1] = downloads[1]
         /\ \/ Len(downloads') = 2 /\ downloads'[2].file_name = "filtered.parquet"
               /\ msgs' = msgs
            \/ Len(downloads') = 1
               /\ msgs' = Append(msgs, "caption: Parquet download unavailable")]_vars

C8_Witness ==
    /\ pc = "done" /\ applied
    /\ Said("caption: Parquet download unavailable")
    /\ Len(downloads) = 1
    /\ downloads[1].file_name = "filtered_parts.zip"

MultiselectColumns == {col \in DOMAIN ctl.widget : WidgetKind(df, col) = "multiselect"}

\* C9: with values selected for a categorical column every row kept holds one
\* of them; with none selected the column removes no row.
C9_Categorical ==
    (pc = "gate" /\ applied) =>
        \A col \in MultiselectColumns :
            /\ (ctl.widget[col] # {} /\ col \in Range(ctl.selected_columns)) =>
                 \A i \in DOMAIN Val(filtered).rows :
                     /\ notna(Val(filtered).rows[i].v[col])
                     /\ Val(Val(filtered).rows[i].v[col]) \in ctl.widget[col]
            /\ ctl.widget[col] = {} =>
                 Val(filtered) = FilterWith([Collect(df, ctl) EXCEPT
                                               !.categorical_selections =
                                                   SelectSeq(@, LAMBDA e : e.key # col)],
                                            df, df, ctl).table

\* A row satisfies the constraint the form holds for column col.
SatisfiesColumn(r, col) ==
    CASE WidgetKind(df, col) = "slider" ->
           FullRange(col) \/ between(r.v[col], ctl.widget[col][1], ctl.widget[col][2])
      [] WidgetKind(df, col) = "date_input" ->
           \/ Len(ctl.widget[col]) # 2
           \/ FullRange(col)
           \/ DateBetween(r.v[col], ctl.widget[col][1], ctl.widget[col][2])
      [] WidgetKind(df, col) = "multiselect" ->
           ctl.widget[col] = {} \/ (notna(r.v[col]) /\ Val(r.v[col]) \in ctl.widget[col])
      [] OTHER ->
           \/ ctl.widget[col] = <<>>
           \/ notna(r.v[col]) /\ ContainsIgnoringCase(Val(r.v[col]), ctl.widget[col])

Satisfies(r) ==
    /\ DateBetween(r.v[ctl.time_col], ctl.date_range[1], ctl.date_range[2])
    /\ \A col \in DOMAIN ctl.widget : SatisfiesColumn(r, col)

\* C10: the rows kept are exactly the rows of df in the window that satisfy
\* every constraint that is not inert, in df's order.
C10_Conjunction ==
    (pc = "gate" /\ applied) =>
        Val(filtered) = Project(Keep(df, Satisfies), ctl.selected_columns)

====
